---- MODULE Spec2Model ----
(***************************************************************************)
(* DebuggerV2EventMultiplexer                                              *)
(* (tensorboard/plugins/debugger_v2/debug_data_multiplexer.py):            *)
(* a facade over a tfdbg2 DebugDataReader.  The facade's methods are       *)
(* modelled statement by statement, one step per access to shared state    *)
(* (self._reader, the reader's growable lists), so that caller threads and *)
(* the background update() thread interleave as Python threads do.         *)
(* The DebugDataReader itself and the logdir are the environment.          *)
(***************************************************************************)
EXTENDS Integers, Sequences, FiniteSets, TLC

\* ------------------------------------------------------------------ bounds
MaxRecords == 2      \* execution records ever written to the logdir
MaxFiles == 2        \* source files ever recorded in the logdir
ConcRecords == 1     \* records and files in the logdir of the specification
ConcFiles == 1       \* of several callers, all written before the first call

\* --------------------------------------------------------------- constants
DEFAULT_DEBUGGER_RUN_NAME == "__default_debugger_run__"
OtherRun == "some_other_run"
None == 0
StartingWallTime == 1000
OpTypes == <<"MatMul", "AddV2">>

\* Caller threads.  A reader is constructed only by a caller that found
\* self._reader unset, and after its assignment no caller finds it unset again:
\* there are at most as many readers as callers.
AllCallers == {1, 2}
SeqCallers == {1}
Readers == AllCallers

VARIABLES
    api,          \* the installed debug_events_reader: "full", "noClass", "noUpdate"
    dirData,      \* the logdir holds a DebugEvent file set
    srcDigests,   \* execution records in the logdir's files, in write order
    srcFiles,     \* source-file keys in the logdir's files, in write order
    nReaders,     \* DebugDataReader objects constructed so far
    digests,      \* digests[r]: reader r's _execution_digests list
    files,        \* files[r]: keys of reader r's _host_name_file_path_to_offset
    passes,       \* passes[r]: update() threads now running on reader r
    goal,         \* goal[r]: what the files held when update() was last started on r
    reader,       \* self._reader (None or a reader)
    th,           \* th[t]: caller thread t's frame
    launches,        \* history: run_in_background(...) calls
    finished,        \* history: update() passes that have returned
    absentReturned,  \* history: a Runs() returned {} after the constructor raised
    activeReturned   \* history: a Runs() returned the reserved run name

vars == <<api, dirData, srcDigests, srcFiles, nReaders, digests, files, passes,
          goal, reader, th, launches, finished, absentReturned, activeReturned>>

envVars == <<api, dirData, srcDigests, srcFiles>>
storeVars == <<nReaders, digests, files, passes, goal>>
histVars == <<launches, finished, absentReturned, activeReturned>>

\* ------------------------------------------------------------ Python helpers
Min(a, b) == IF a < b THEN a ELSE b
Max(a, b) == IF a > b THEN a ELSE b

\* seq[b:e]
PySlice(s, b, e) ==
    LET n == Len(s)
        lo == IF b < 0 THEN Max(b + n, 0) ELSE Min(b, n)
        hi == IF e < 0 THEN Max(e + n, 0) ELSE Min(e, n)
    IN IF lo >= hi THEN <<>> ELSE SubSeq(s, lo + 1, hi)

\* seq[i] raises IndexError unless -len <= i < len
PyIndexOk(s, i) == -Len(s) <= i /\ i < Len(s)
PyIndex(s, i) == s[(IF i < 0 THEN i + Len(s) ELSE i) + 1]

\* ------------------------------------------------------------------ records
\* The i-th (0-based) ExecutionDigest object a reader builds from the files.
ExecutionDigest(i) ==
    [wall_time |-> StartingWallTime + i + 1,
     offset |-> 16 * i,
     op_type |-> OpTypes[(i % 2) + 1],
     output_tensor_device_ids |-> IF i % 2 = 0 THEN <<0>> ELSE <<0, 1>>]

_execution_digest_to_json(execution_digest) ==
    [wall_time |-> execution_digest.wall_time,
     op_type |-> execution_digest.op_type,
     output_tensor_device_ids |-> execution_digest.output_tensor_device_ids]

\* The i-th (0-based) source file recorded: (host_name, file_path).
FileKey(i) == <<"localhost", IF i % 2 = 0 THEN "/tmp/main.py" ELSE "/tmp/model.py">>
FileLines(key) == <<"# ", key[2]>>

EmptyRuns == [r \in {} |-> <<>>]
\* Mutant: the mapping returned with a reader set names no run.
ActiveRuns_NoRun == EmptyRuns

\* Lines 150-156
ActiveRuns == [r \in {DEFAULT_DEBUGGER_RUN_NAME} |->
                  [c \in {"debugger-v2"} |-> <<>>]]

Raise(exc, msg) == [kind |-> "raise", exc |-> exc, msg |-> msg]
NoResult == [kind |-> "none"]
Null == [kind |-> "null"]

IdleFrame ==
    [pc |-> "idle", op |-> "-", run |-> DEFAULT_DEBUGGER_RUN_NAME,
     begin |-> 0, end |-> 0, index |-> 0,
     runs |-> EmptyRuns, rd |-> None, endv |-> 0, num |-> 0,
     source_file_list |-> <<>>, key |-> <<>>, res |-> NoResult, snap |-> <<>>,
     sawNone |-> FALSE, ctor |-> 0, afterAbsent |-> FALSE,
     afterActive |-> FALSE, dirty |-> FALSE, hadData |-> FALSE,
     prior |-> NoResult]

\* --------------------------------------------------------------------- Init
Init ==
    /\ api \in {"full", "noClass", "noUpdate"}
    /\ dirData = FALSE
    /\ srcDigests = <<>>
    /\ srcFiles = <<>>
    /\ nReaders = 0
    /\ digests = [r \in Readers |-> <<>>]
    /\ files = [r \in Readers |-> <<>>]
    /\ passes = [r \in Readers |-> 0]
    /\ goal = [r \in Readers |-> [records |-> 0, files |-> 0]]
    /\ reader = None
    /\ th = [t \in AllCallers |-> IdleFrame]
    /\ launches = 0
    /\ finished = 0
    /\ absentReturned = FALSE
    /\ activeReturned = FALSE

\* -------------------------------------------------------------- environment
\* A tfdbg2-instrumented program creates the DebugEvent file set.
WriteData ==
    /\ ~dirData
    /\ dirData' = TRUE
    /\ UNCHANGED <<api, srcDigests, srcFiles, storeVars, reader, th, histVars>>

\* The instrumented program writes one more execution record.
AppendRecord(maxRecords) ==
    /\ dirData
    /\ Len(srcDigests) < maxRecords
    /\ srcDigests' = Append(srcDigests, ExecutionDigest(Len(srcDigests)))
    /\ UNCHANGED <<api, dirData, srcFiles, storeVars, reader, th, histVars>>

\* The instrumented program records one more source file.
AppendFile(maxFiles) ==
    /\ dirData
    /\ Len(srcFiles) < maxFiles
    /\ srcFiles' = Append(srcFiles, FileKey(Len(srcFiles)))
    /\ UNCHANGED <<api, dirData, srcDigests, storeVars, reader, th, histVars>>

\* ------------------------------------------------- DebugDataReader.update()
\* A caller whose frame holds reader r's list sees the list grow under it.
Touch(r) ==
    [t \in AllCallers |->
        IF th[t].rd = r /\ th[t].pc \notin {"idle", "done"}
        THEN [th[t] EXCEPT !.dirty = TRUE] ELSE th[t]]

\* One running pass reads the next execution record and appends its digest.
UpdateDigest(r) ==
    /\ passes[r] > 0
    /\ Len(digests[r]) < Len(srcDigests)
    /\ digests' = [digests EXCEPT ![r] = Append(@, srcDigests[Len(@) + 1])]
    /\ th' = Touch(r)
    /\ UNCHANGED <<envVars, nReaders, files, passes, goal, reader, histVars>>

\* One running pass reads the next source-file record and indexes its key.
UpdateFile(r) ==
    /\ passes[r] > 0
    /\ Len(files[r]) < Len(srcFiles)
    /\ files' = [files EXCEPT ![r] = Append(@, srcFiles[Len(@) + 1])]
    /\ UNCHANGED <<envVars, nReaders, digests, passes, goal, reader, th, histVars>>

\* A pass reads each file to its end and returns; its thread ends.  What was
\* in the files when the pass was started has been read by then; what is
\* appended while it runs may have been read or not.
UpdateReturn(r) ==
    /\ passes[r] > 0
    /\ Len(digests[r]) >= goal[r].records
    /\ Len(files[r]) >= goal[r].files
    /\ passes' = [passes EXCEPT ![r] = @ - 1]
    /\ finished' = finished + 1
    /\ UNCHANGED <<envVars, nReaders, digests, files, goal, reader, th,
                   launches, absentReturned, activeReturned>>

\* reader.source_lines(host_name, file_path): a lookup in the reader's index.
source_lines(r, key) ==
    IF \E i \in 1..Len(files[r]) : files[r][i] = key
    THEN [kind |-> "value", lines |-> FileLines(key)]
    ELSE Raise("KeyError", "source file not indexed")

\* ----------------------------------------------------------------- facade
\* Mutant: the thread is created and never started.
run_in_background_NotStarted(r) == passes

\* threading.Thread(target=target).start(): one more thread runs r.update once.
run_in_background(r) == [passes EXCEPT ![r] = @ + 1]

\* Mutant: the test is dropped, and every Runs() constructs a reader.
ReaderIsNone_Always == TRUE

\* Mutant: a failed construction is remembered and not attempted again.
ReaderIsNone_CachedAbsent == reader = None /\ ~absentReturned

\* `self._reader is None`
ReaderIsNone == reader = None

\* The frame after the frame's call of Runs() returned `mapping`.
RunsReturn(f, mapping) ==
    IF f.op = "Runs"
    THEN [f EXCEPT !.pc = "done", !.res = [kind |-> "runs", runs |-> mapping]]
    ELSE [f EXCEPT !.pc = "body", !.runs = mapping]

\* Mutant: the exception is not caught and reaches the caller of Runs().
ExceptClause_Propagate(f) ==
    [f EXCEPT !.pc = "done", !.res = Raise("ValueError", "uncaught")]

\* Lines 139-148: both except clauses return {}.
ExceptClause(f) == RunsReturn(f, EmptyRuns)

\* History: when caller t calls `op`, what the same method has returned to
\* another caller thread that has its result in hand (NoResult if none has).
PriorResult(t, op) ==
    LET returned == {u \in AllCallers \ {t} :
                        /\ th[u].pc = "done" /\ th[u].op = op
                        /\ th[u].res.kind \in {"digests", "list"}}
    IN IF returned = {} THEN NoResult
       ELSE th[CHOOSE u \in returned : TRUE].res

\* A caller invokes Runs(), directly or as the first statement of
\* ExecutionDigests / SourceFileList / SourceLines: the test of line 129.
RunsEnter(t, op, run, begin, end, index) ==
    /\ th[t].pc = "idle"
    /\ LET f == [IdleFrame EXCEPT !.op = op, !.run = run, !.begin = begin,
                                  !.end = end, !.index = index,
                                  !.sawNone = (reader = None),
                                  !.afterAbsent = absentReturned,
                                  !.afterActive = activeReturned,
                                  !.hadData = (absentReturned /\ dirData),
                                  !.prior = PriorResult(t, op)]
       IN IF ReaderIsNone
          THEN /\ th' = [th EXCEPT ![t] = [f EXCEPT !.pc = "construct"]]
               /\ UNCHANGED activeReturned
          ELSE /\ th' = [th EXCEPT ![t] = RunsReturn(f, ActiveRuns)]
               /\ activeReturned' = TRUE
    /\ UNCHANGED <<envVars, storeVars, reader, launches, finished,
                   absentReturned>>

\* Line 133: self._reader = debug_events_reader.DebugDataReader(self._logdir)
Construct(t) ==
    /\ th[t].pc = "construct"
    /\ LET f == [th[t] EXCEPT !.ctor = @ + 1]
       IN IF api = "noClass" \/ ~dirData
          THEN \* AttributeError (no such class), else ValueError (no file set)
               /\ th' = [th EXCEPT ![t] = ExceptClause(f)]
               /\ absentReturned' = TRUE
               /\ UNCHANGED <<nReaders, reader>>
          ELSE /\ nReaders' = nReaders + 1
               /\ reader' = nReaders + 1
               /\ th' = [th EXCEPT ![t] = [f EXCEPT !.pc = "launch"]]
               /\ UNCHANGED absentReturned
    /\ UNCHANGED <<envVars, digests, files, passes, goal, launches, finished,
                   activeReturned>>

\* Line 136: run_in_background(self._reader.update)
Launch(t) ==
    /\ th[t].pc = "launch"
    /\ IF api = "noUpdate"
       THEN \* AttributeError: the reader has no update()
            /\ th' = [th EXCEPT ![t] = ExceptClause(th[t])]
            /\ UNCHANGED <<passes, goal, launches, activeReturned>>
       ELSE /\ passes' = run_in_background(reader)
            /\ goal' = [goal EXCEPT ![reader] = [records |-> Len(srcDigests),
                                                 files |-> Len(srcFiles)]]
            /\ launches' = launches + 1
            /\ th' = [th EXCEPT ![t] = RunsReturn(th[t], ActiveRuns)]
            /\ activeReturned' = TRUE
    /\ UNCHANGED <<envVars, nReaders, digests, files, reader, finished,
                   absentReturned>>

\* The call returns `value` (or raises it).  snap is history: the digest list
\* of the reader the frame holds, as it is at the return.
Return(f, value) ==
    [f EXCEPT !.pc = "done", !.res = value,
              !.runs = EmptyRuns, !.endv = 0, !.num = 0, !.key = <<>>,
              !.snap = IF f.rd = None THEN <<>> ELSE digests[f.rd]]

\* reader.starting_wall_time(): read from the file set's metadata by the
\* constructor, the same for every reader of the logdir.
starting_wall_time(r) == StartingWallTime

\* Mutant: the run name is tested before the reader.
FirstEventTimestampResult_RunFirst(run) ==
    IF run # DEFAULT_DEBUGGER_RUN_NAME
    THEN Raise("ValueError", "Expected run name to be")
    ELSE IF ReaderIsNone
    THEN Raise("ValueError", "No tfdbg2 runs exists.")
    ELSE [kind |-> "time", wall_time |-> starting_wall_time(reader)]

\* Lines 98-105
FirstEventTimestampResult(run) ==
    IF ReaderIsNone
    THEN Raise("ValueError", "No tfdbg2 runs exists.")
    ELSE IF run # DEFAULT_DEBUGGER_RUN_NAME
    THEN Raise("ValueError", "Expected run name to be")
    ELSE [kind |-> "time", wall_time |-> starting_wall_time(reader)]

FirstEventTimestamp(t, run) ==
    /\ th[t].pc = "idle"
    /\ LET f == [IdleFrame EXCEPT !.op = "FirstEventTimestamp", !.run = run,
                                  !.sawNone = (reader = None),
                                  !.afterActive = activeReturned]
       IN th' = [th EXCEPT ![t] = Return(f, FirstEventTimestampResult(run))]
    /\ UNCHANGED <<envVars, storeVars, reader, histVars>>

\* Mutant: an empty mapping is returned in place of the exception.
PluginRunToTagToContent_ReturnsEmpty(t, plugin_name) ==
    /\ th[t].pc = "idle"
    /\ LET f == [IdleFrame EXCEPT !.op = "PluginRunToTagToContent",
                                  !.run = plugin_name,
                                  !.afterActive = activeReturned]
       IN th' = [th EXCEPT ![t] = Return(f, [kind |-> "runs", runs |-> EmptyRuns])]
    /\ UNCHANGED <<envVars, storeVars, reader, histVars>>

\* Lines 107-111
PluginRunToTagToContent(t, plugin_name) ==
    /\ th[t].pc = "idle"
    /\ LET f == [IdleFrame EXCEPT !.op = "PluginRunToTagToContent",
                                  !.run = plugin_name,
                                  !.afterActive = activeReturned]
       IN th' = [th EXCEPT ![t] =
            Return(f, Raise("NotImplementedError", "has not been implemented yet."))]
    /\ UNCHANGED <<envVars, storeVars, reader, histVars>>

\* Mutant: begin is validated before the run name is looked up.
ExecutionDigestsBody_ValidateFirst(f) ==
    IF f.begin < 0
    THEN Return([f EXCEPT !.rd = reader], Raise("IndexError", "Invalid begin index"))
    ELSE IF f.run \notin DOMAIN f.runs THEN Return(f, Null)
    ELSE [f EXCEPT !.rd = reader, !.pc = "ed_len"]

\* Lines 171-177: the run test, then the reader's digest list is fetched.
ExecutionDigestsBody(f) ==
    IF f.run \notin DOMAIN f.runs THEN Return(f, Null)
    ELSE IF f.begin < 0
    THEN Return([f EXCEPT !.rd = reader], Raise("IndexError", "Invalid begin index"))
    ELSE [f EXCEPT !.rd = reader, !.pc = "ed_len"]

\* Lines 201-206
SourceFileListBody(f) ==
    IF f.run \notin DOMAIN f.runs THEN Return(f, Null)
    ELSE Return([f EXCEPT !.rd = reader], [kind |-> "list", keys |-> files[reader]])

\* Lines 210-222: the key list is copied and indexed.
SourceLinesBody(f) ==
    IF f.run \notin DOMAIN f.runs THEN Return(f, Null)
    ELSE LET g == [f EXCEPT !.rd = reader, !.source_file_list = files[reader]]
         IN IF ~PyIndexOk(g.source_file_list, g.index)
            THEN Return(g, Raise("IndexError", "There is no source-code file at index"))
            ELSE [g EXCEPT !.pc = "sl_lines",
                           !.key = PyIndex(g.source_file_list, g.index)]

Body(t) ==
    /\ th[t].pc = "body"
    /\ th' = [th EXCEPT ![t] =
         CASE th[t].op = "ExecutionDigests" -> ExecutionDigestsBody(th[t])
           [] th[t].op = "SourceFileList" -> SourceFileListBody(th[t])
           [] OTHER -> SourceLinesBody(th[t])]
    /\ UNCHANGED <<envVars, storeVars, reader, histVars>>

\* Lines 223-227: self._reader.source_lines(host_name, file_path)
SourceLinesRead(t) ==
    /\ th[t].pc = "sl_lines"
    /\ LET f == th[t]
           got == source_lines(reader, f.key)
       IN th' = [th EXCEPT ![t] =
            IF got.kind = "raise" THEN Return(f, got)
            ELSE Return(f, [kind |-> "lines", host_name |-> f.key[1],
                            file_path |-> f.key[2], lines |-> got.lines])]
    /\ UNCHANGED <<envVars, storeVars, reader, histVars>>

\* Mutant: the ordering test is made before the upper range test.
ExecutionDigestsCheck_OrderFirst(f) ==
    LET n == Len(digests[f.rd])
    IN IF f.end >= 0 /\ f.end < f.begin
       THEN Return(f, Raise("ValueError", "end index is unexpected less than begin index"))
       ELSE IF f.end > n
       THEN Return(f, Raise("IndexError", "end index out of bounds"))
       ELSE IF f.end < 0
       THEN [f EXCEPT !.pc = "ed_end"]
       ELSE [f EXCEPT !.pc = "ed_num", !.endv = f.end]

\* Lines 178-187: both tests read len(execution_digests) once, at line 178.
ExecutionDigestsCheck(f) ==
    LET n == Len(digests[f.rd])
    IN IF f.end > n
       THEN Return(f, Raise("IndexError", "end index out of bounds"))
       ELSE IF f.end >= 0 /\ f.end < f.begin
       THEN Return(f, Raise("ValueError", "end index is unexpected less than begin index"))
       ELSE IF f.end < 0
       THEN [f EXCEPT !.pc = "ed_end"]
       ELSE [f EXCEPT !.pc = "ed_num", !.endv = f.end]

EdCheck(t) ==
    /\ th[t].pc = "ed_len"
    /\ th' = [th EXCEPT ![t] = ExecutionDigestsCheck(th[t])]
    /\ UNCHANGED <<envVars, storeVars, reader, histVars>>

\* Mutant: a negative end is left as it is, and the slice drops the last digest.
ResolveEnd_Keep(f) == f.end

\* Lines 188-189: if end < 0: end = len(execution_digests)
ResolveEnd(f) == Len(digests[f.rd])

EdEnd(t) ==
    /\ th[t].pc = "ed_end"
    /\ th' = [th EXCEPT ![t] = [th[t] EXCEPT !.pc = "ed_num",
                                             !.endv = ResolveEnd(th[t])]]
    /\ UNCHANGED <<envVars, storeVars, reader, histVars>>

\* Line 193: "num_digests": len(execution_digests)
EdNum(t) ==
    /\ th[t].pc = "ed_num"
    /\ th' = [th EXCEPT ![t] = [th[t] EXCEPT !.pc = "ed_slice",
                                             !.num = Len(digests[th[t].rd])]]
    /\ UNCHANGED <<envVars, storeVars, reader, histVars>>

\* Mutant: num_digests counts the digests returned, not the digests known.
ExecutionDigestsResult_CountSlice(f) ==
    LET slice == PySlice(digests[f.rd], f.begin, f.endv)
    IN [kind |-> "digests", begin |-> f.begin, end |-> f.endv,
        num_digests |-> Len(slice),
        execution_digests |->
            [i \in 1..Len(slice) |-> _execution_digest_to_json(slice[i])]]

\* Lines 190-198: the slice is taken and serialized, the record returned.
ExecutionDigestsResult(f) ==
    LET slice == PySlice(digests[f.rd], f.begin, f.endv)
    IN [kind |-> "digests", begin |-> f.begin, end |-> f.endv,
        num_digests |-> f.num,
        execution_digests |->
            [i \in 1..Len(slice) |-> _execution_digest_to_json(slice[i])]]

EdSlice(t) ==
    /\ th[t].pc = "ed_slice"
    /\ th' = [th EXCEPT ![t] = Return(th[t], ExecutionDigestsResult(th[t]))]
    /\ UNCHANGED <<envVars, storeVars, reader, histVars>>

\* The caller takes the result (or the exception) and is free to call again.
Ack(t) ==
    /\ th[t].pc = "done"
    /\ th' = [th EXCEPT ![t] = IdleFrame]
    /\ UNCHANGED <<envVars, storeVars, reader, histVars>>

\* ------------------------------------------------------------ specifications
RunArgs == {DEFAULT_DEBUGGER_RUN_NAME, OtherRun}
BeginArgs == -1..(MaxRecords + 1)
EndArgs == -1..(MaxRecords + 1)
IndexArgs == (-(MaxFiles + 1))..MaxFiles
PluginArgs == {"debugger-v2", "scalars"}

Environment(maxRecords, maxFiles) ==
    WriteData \/ AppendRecord(maxRecords) \/ AppendFile(maxFiles)

Background == \E r \in Readers : UpdateDigest(r) \/ UpdateFile(r) \/ UpdateReturn(r)

Continue(t) ==
    \/ Construct(t)
    \/ Launch(t)
    \/ Body(t)
    \/ EdCheck(t)
    \/ EdEnd(t)
    \/ EdNum(t)
    \/ EdSlice(t)
    \/ SourceLinesRead(t)
    \/ Ack(t)

\* One caller thread, every argument of the bounded ranges.
Next ==
    \/ Environment(MaxRecords, MaxFiles)
    \/ Background
    \/ \E t \in SeqCallers :
        \/ RunsEnter(t, "Runs", DEFAULT_DEBUGGER_RUN_NAME, 0, 0, 0)
        \/ \E run \in RunArgs, begin \in BeginArgs, end \in EndArgs :
              RunsEnter(t, "ExecutionDigests", run, begin, end, 0)
        \/ \E run \in RunArgs : RunsEnter(t, "SourceFileList", run, 0, 0, 0)
        \/ \E run \in RunArgs, index \in IndexArgs :
              RunsEnter(t, "SourceLines", run, 0, 0, index)
        \/ \E run \in RunArgs : FirstEventTimestamp(t, run)
        \/ \E plugin_name \in PluginArgs : PluginRunToTagToContent(t, plugin_name)
        \/ Continue(t)

Spec == Init /\ [][Next]_vars

\* Ingestion as one caller observes it: the caller polls Runs() and reads all
\* the digests there are, ExecutionDigests(reserved run, 0, -1).  The update()
\* threads are Python threads: the scheduler runs a thread that can take a
\* step.  Nothing obliges the caller to call.
FairNext ==
    \/ Environment(MaxRecords, MaxFiles)
    \/ Background
    \/ \E t \in SeqCallers :
        \/ RunsEnter(t, "Runs", DEFAULT_DEBUGGER_RUN_NAME, 0, 0, 0)
        \/ RunsEnter(t, "ExecutionDigests", DEFAULT_DEBUGGER_RUN_NAME, 0, -1, 0)
        \/ Construct(t)
        \/ Launch(t)
        \/ Body(t)
        \/ EdCheck(t)
        \/ EdEnd(t)
        \/ EdNum(t)
        \/ EdSlice(t)
        \/ Ack(t)

FairSpec == Init /\ [][FairNext]_vars /\ WF_vars(Background)

\* Several caller threads on a logdir written before the first call (the
\* usual start of TensorBoard on a finished debugging run), with the installed
\* reader complete.  The interleavings of the callers with each other and
\* with the update() threads are complete; the arguments are one succeeding
\* and one failing value per method.
ConcInit ==
    /\ api = "full"
    /\ dirData = TRUE
    /\ srcDigests = [i \in 1..ConcRecords |-> ExecutionDigest(i - 1)]
    /\ srcFiles = [i \in 1..ConcFiles |-> FileKey(i - 1)]
    /\ nReaders = 0
    /\ digests = [r \in Readers |-> <<>>]
    /\ files = [r \in Readers |-> <<>>]
    /\ passes = [r \in Readers |-> 0]
    /\ goal = [r \in Readers |-> [records |-> 0, files |-> 0]]
    /\ reader = None
    /\ th = [t \in AllCallers |-> IdleFrame]
    /\ launches = 0
    /\ finished = 0
    /\ absentReturned = FALSE
    /\ activeReturned = FALSE

ConcNext ==
    \/ Background
    \/ \E t \in AllCallers :
        \/ RunsEnter(t, "Runs", DEFAULT_DEBUGGER_RUN_NAME, 0, 0, 0)
        \/ \E end \in {-1, ConcRecords + 1} :
              RunsEnter(t, "ExecutionDigests", DEFAULT_DEBUGGER_RUN_NAME, 0, end, 0)
        \/ RunsEnter(t, "SourceFileList", DEFAULT_DEBUGGER_RUN_NAME, 0, 0, 0)
        \/ \E index \in {0, ConcFiles} :
              RunsEnter(t, "SourceLines", DEFAULT_DEBUGGER_RUN_NAME, 0, 0, index)
        \/ \E run \in RunArgs : FirstEventTimestamp(t, run)
        \/ PluginRunToTagToContent(t, "debugger-v2")
        \/ Continue(t)

ConcSpec == ConcInit /\ [][ConcNext]_vars

\* ============================================================== properties
\* The error kinds of the specification, as the exceptions the code raises.
IsRangeError(res) == res.kind = "raise" /\ res.exc = "IndexError"
IsNotFoundError(res) ==
    res.kind = "raise" /\ res.exc = "ValueError" /\ res.msg = "No tfdbg2 runs exists."
IsInvalidArgumentError(res) ==
    res.kind = "raise" /\ res.exc = "ValueError" /\ res.msg # "No tfdbg2 runs exists."
IsNotSupportedError(res) == res.kind = "raise" /\ res.exc = "NotImplementedError"

Done(t, op) == th[t].pc = "done" /\ th[t].op = op

\* The digests of positions b .. e-1 (0-based) of list s, serialized.
JsonSlice(s, b, e) == [i \in 1..(e - b) |-> _execution_digest_to_json(s[b + i])]

\* ---- C1
\* C1 as stated: a Runs() called after some Runs() returned {} because the
\* constructor raised makes no construction attempt and returns {}.
C1_AbsentIsCached ==
    \A t \in SeqCallers :
        (Done(t, "Runs") /\ th[t].afterAbsent)
            => (th[t].ctor = 0 /\ th[t].res.runs = EmptyRuns)

\* C1 amended: a failed construction is not cached.  A Runs() that returned {}
\* because the constructor raised leaves self._reader unset, and a Runs()
\* called after it that finds self._reader unset invokes the constructor
\* again; it returns {} again when that attempt raises again.
C1_FailedConstructionIsRetried ==
    \A t \in SeqCallers :
        /\ (Done(t, "Runs") /\ th[t].afterAbsent /\ th[t].sawNone)
              => /\ th[t].ctor = 1
                 /\ (reader = None => th[t].res = [kind |-> "runs", runs |-> EmptyRuns])
        /\ (Done(t, "Runs") /\ th[t].ctor = 1 /\ api # "noUpdate"
                /\ th[t].res = [kind |-> "runs", runs |-> EmptyRuns])
              => reader = None

\* A second Runs() after a failed one has invoked the constructor and failed again.
C1_Witness ==
    \E t \in SeqCallers :
        /\ Done(t, "Runs") /\ th[t].afterAbsent /\ th[t].sawNone
        /\ th[t].ctor = 1
        /\ th[t].res = [kind |-> "runs", runs |-> EmptyRuns]
        /\ reader = None

\* ---- C2
\* C2: over any interleaving of the callers' first calls, at most one reader
\* is constructed and assigned, and run_in_background is called at most once.
C2_AtMostOneReader == nReaders <= 1 /\ launches <= 1

\* ---- C3
\* The step in which caller t's ExecutionDigests call on the reserved run of
\* an active store returns or raises.
EdCompletes(t) ==
    /\ th[t].pc \in {"body", "ed_len", "ed_slice"}
    /\ th[t].op = "ExecutionDigests"
    /\ th'[t].pc = "done"
    /\ th'[t].rd # None

StoreUnchanged ==
    reader' = reader /\ digests' = digests /\ files' = files /\ nReaders' = nReaders

\* C3 as stated: with N digests in the store, begin < 0 or end > N gives a
\* range error, and 0 <= end < begin gives an invalid-argument error.
C3_Original ==
    [][\A t \in SeqCallers : EdCompletes(t) =>
         LET f == th'[t]
             N == Len(digests[f.rd])
         IN /\ (f.begin < 0 \/ f.end > N) => IsRangeError(f.res)
            /\ (f.end >= 0 /\ f.end < f.begin) => IsInvalidArgumentError(f.res)]_vars

\* C3 amended: begin < 0 or end > N gives a range error; 0 <= end < begin
\* with end <= N (and begin >= 0) gives an invalid-argument error: the range
\* tests are made first.  A failing call returns no record and leaves the
\* store reference and the store's contents as they were.
C3_RangeTestsFirst ==
    [][\A t \in SeqCallers : EdCompletes(t) =>
         LET f == th'[t]
             N == Len(digests[f.rd])
         IN /\ (f.begin < 0 \/ f.end > N) => IsRangeError(f.res)
            /\ (f.begin >= 0 /\ f.end >= 0 /\ f.end <= N /\ f.end < f.begin)
                  => IsInvalidArgumentError(f.res)
            /\ f.res.kind = "raise" => StoreUnchanged]_vars

\* On a store holding digests, a call with 0 <= end < begin and end within
\* range has raised the invalid-argument error.
C3_Witness ==
    \E t \in SeqCallers :
        /\ Done(t, "ExecutionDigests") /\ th[t].rd # None
        /\ th[t].end >= 0 /\ th[t].end < th[t].begin
        /\ th[t].end <= Len(th[t].snap)
        /\ IsInvalidArgumentError(th[t].res)
        /\ Len(th[t].snap) = MaxRecords

\* ---- C4
\* C4: with N digests in the store and no ingestion step during the call, for
\* 0 <= begin <= end <= N the call returns begin and end unchanged,
\* num_digests = N and the digests of positions begin .. end-1, in order.
C4_SliceMatchesStore ==
    \A t \in SeqCallers :
        LET f == th[t]
            N == Len(f.snap)
        IN (Done(t, "ExecutionDigests") /\ f.rd # None /\ ~f.dirty
              /\ 0 <= f.begin /\ f.begin <= f.end /\ f.end <= N)
           => f.res = [kind |-> "digests", begin |-> f.begin, end |-> f.end,
                       num_digests |-> N,
                       execution_digests |-> JsonSlice(f.snap, f.begin, f.end)]

\* A call with 0 < begin < end = N returned a proper, non-empty slice.
C4_Witness ==
    \E t \in SeqCallers :
        /\ Done(t, "ExecutionDigests") /\ th[t].rd # None /\ ~th[t].dirty
        /\ th[t].begin = 1 /\ th[t].end = MaxRecords
        /\ Len(th[t].snap) = MaxRecords
        /\ th[t].res.kind = "digests"
        /\ Len(th[t].res.execution_digests) = MaxRecords - 1

\* ---- C5
\* C5: with N digests in the store and no ingestion step during the call, a
\* negative end and 0 <= begin <= N return end = N, num_digests = N and the
\* N - begin digests of positions begin .. N-1.
C5_SentinelEnd ==
    \A t \in SeqCallers :
        LET f == th[t]
            N == Len(f.snap)
        IN (Done(t, "ExecutionDigests") /\ f.rd # None /\ ~f.dirty
              /\ f.end < 0 /\ 0 <= f.begin /\ f.begin <= N)
           => f.res = [kind |-> "digests", begin |-> f.begin, end |-> N,
                       num_digests |-> N,
                       execution_digests |-> JsonSlice(f.snap, f.begin, N)]

\* A call with end = -1 and 0 < begin < N returned the N - begin last digests.
C5_Witness ==
    \E t \in SeqCallers :
        /\ Done(t, "ExecutionDigests") /\ th[t].rd # None /\ ~th[t].dirty
        /\ th[t].end = -1 /\ th[t].begin = 1
        /\ Len(th[t].snap) = MaxRecords
        /\ th[t].res.kind = "digests"
        /\ th[t].res.end = MaxRecords
        /\ Len(th[t].res.execution_digests) = MaxRecords - 1

\* ---- C6
\* C6: Runs() returns {} and raises nothing when the constructor fails for
\* lack of data or of the reader class, or when the reader has no update();
\* in the call that constructs the reader and starts the background thread it
\* returns exactly {reserved run name: {"debugger-v2": []}}.
C6_RunsSwallowsConstructionFailure ==
    [][\A t \in SeqCallers :
         (th[t].op = "Runs" /\ th[t].pc \in {"construct", "launch"}
             /\ th'[t] # th[t]) =>
         LET failed == IF th[t].pc = "construct"
                       THEN api = "noClass" \/ ~dirData
                       ELSE api = "noUpdate"
         IN /\ failed =>
                 /\ th'[t].pc = "done"
                 /\ th'[t].res = [kind |-> "runs", runs |-> EmptyRuns]
            /\ (~failed /\ th[t].pc = "construct") =>
                 /\ th'[t].pc = "launch"
                 /\ reader' # None
            /\ (~failed /\ th[t].pc = "launch") =>
                 /\ th'[t].pc = "done"
                 /\ th'[t].res = [kind |-> "runs", runs |-> ActiveRuns]
                 /\ launches' = launches + 1
                 /\ passes'[reader] = passes[reader] + 1]_vars

\* A Runs() that failed for lack of data was followed by the Runs() that
\* constructed the reader, started ingestion and returned the run name.
C6_Witness ==
    \E t \in SeqCallers :
        /\ Done(t, "Runs") /\ th[t].afterAbsent /\ th[t].ctor = 1
        /\ api = "full"
        /\ th[t].res = [kind |-> "runs", runs |-> ActiveRuns]
        /\ launches = 1

\* ---- C7
\* C7: active never reverts.  An operation called after some Runs() returned
\* the reserved run name, whatever it is and whether it succeeds or fails,
\* leaves self._reader as it is, and a Runs() called after that return
\* constructs no reader and returns the reserved run name.
C7_ActiveNeverReverts ==
    [][\A t \in AllCallers :
         (th'[t].afterActive /\ th'[t] # th[t]) =>
            /\ reader' = reader
            /\ nReaders' = nReaders
            /\ (th'[t].op = "Runs" /\ th'[t].pc = "done") =>
                  /\ th'[t].ctor = 0
                  /\ th'[t].res = [kind |-> "runs", runs |-> ActiveRuns]]_vars

\* After a Runs() returned the run name, one caller's operation has failed and
\* the other's later Runs() has returned the run name, the reader still set.
C7_Witness ==
    \E t, u \in AllCallers :
        /\ t # u
        /\ Done(t, "Runs") /\ th[t].afterActive
        /\ th[t].res = [kind |-> "runs", runs |-> ActiveRuns]
        /\ th[u].pc = "done" /\ th[u].afterActive /\ th[u].res.kind = "raise"
        /\ reader # None

\* ---- C8
\* C8: with K keys known, SourceLines(reserved run, index) raises a range
\* error for every index outside 0 .. K-1, negative ones included, and for an
\* index in 0 .. K-1 returns the key at that position with the file's lines.
C8_IndexOutsideRangeRaises ==
    \A t \in SeqCallers :
        LET f == th[t]
            K == Len(f.source_file_list)
        IN (Done(t, "SourceLines") /\ f.rd # None) =>
             /\ f.index \notin 0..(K - 1) => IsRangeError(f.res)
             /\ f.index \in 0..(K - 1) =>
                  f.res = [kind |-> "lines",
                           host_name |-> f.source_file_list[f.index + 1][1],
                           file_path |-> f.source_file_list[f.index + 1][2],
                           lines |-> FileLines(f.source_file_list[f.index + 1])]

\* ---- C9
\* C9: FirstEventTimestamp(run) never constructs the store.  With
\* self._reader unset it raises the not-found error whatever run is; with a
\* reader and another run name it raises the invalid-argument error; else it
\* returns the starting wall time.  self._reader is left as it was.
C9_FirstEventTimestamp ==
    [][\A t \in SeqCallers :
         (th[t].pc = "idle" /\ th'[t].op = "FirstEventTimestamp") =>
         LET f == th'[t]
         IN /\ f.pc = "done"
            /\ reader = None => IsNotFoundError(f.res)
            /\ (reader # None /\ f.run # DEFAULT_DEBUGGER_RUN_NAME)
                  => IsInvalidArgumentError(f.res)
            /\ (reader # None /\ f.run = DEFAULT_DEBUGGER_RUN_NAME)
                  => f.res = [kind |-> "time", wall_time |-> StartingWallTime]
            /\ reader' = reader /\ nReaders' = nReaders
            /\ passes' = passes /\ launches' = launches]_vars

\* FirstEventTimestamp of another run was the first operation on a logdir
\* that holds data: not found, and no reader was constructed.
C9_Witness ==
    \E t \in SeqCallers :
        /\ Done(t, "FirstEventTimestamp")
        /\ th[t].run = OtherRun
        /\ dirData /\ reader = None /\ nReaders = 0 /\ ~absentReturned
        /\ IsNotFoundError(th[t].res)

\* ---- C10
\* C10 as stated: once ingestion has been started, every record in the event
\* source, whenever appended, eventually is among the reader's digests.
C10_EveryRecordEventuallyVisible ==
    \A n \in 1..MaxRecords :
        (launches > 0 /\ Len(srcDigests) >= n)
            ~> (reader # None /\ Len(digests[reader]) >= n)

\* C10 amended: a thread started by run_in_background runs update() once and
\* is not repeated.  Every record that is in the event source when the thread
\* is started eventually is among the reader's digests; once every update()
\* started has returned, the reader's digests and source-file keys never
\* change again, so a record appended after that never becomes visible.
C10_SinglePass ==
    /\ \A n \in 1..MaxRecords :
          (launches > 0 /\ reader # None /\ goal[reader].records >= n)
              ~> (reader # None /\ Len(digests[reader]) >= n)
    /\ [][(launches > 0 /\ finished = launches)
             => (digests' = digests /\ files' = files /\ launches' = launches)]_vars

\* The thread was started on a source that held a record, its pass has
\* returned, and a record appended after that is not among the digests.
C10_Witness ==
    /\ launches = 1 /\ finished = 1
    /\ reader # None
    /\ goal[reader].records >= 1
    /\ Len(digests[reader]) >= 1
    /\ Len(digests[reader]) < Len(srcDigests)

\* ---- C11
\* C11: polling recovery.  With a complete reader API, a Runs() called after
\* a Runs() returned {} for lack of data, and called when the logdir holds
\* data, returns the reserved run name, and an ExecutionDigests(reserved run,
\* 0, -1) called then returns a record, not null.  No Runs() and no
\* ExecutionDigests(reserved run, 0, -1) raises, whatever the logdir and the
\* reader API are.
C11_PollingRecovery ==
    \A t \in SeqCallers :
        LET f == th[t]
            poll == /\ f.op = "ExecutionDigests"
                    /\ f.run = DEFAULT_DEBUGGER_RUN_NAME
                    /\ f.begin = 0 /\ f.end < 0
        IN /\ Done(t, "Runs") => f.res.kind = "runs"
           /\ (f.pc = "done" /\ poll) => f.res.kind \in {"null", "digests"}
           /\ (f.pc = "done" /\ f.afterAbsent /\ f.hadData /\ api = "full") =>
                 /\ f.op = "Runs" => f.res = [kind |-> "runs", runs |-> ActiveRuns]
                 /\ poll => f.res.kind = "digests"

\* After a Runs() that returned {} on an empty logdir, data was written, and a
\* poll that made the reader itself returned a record holding a digest.
C11_Witness ==
    \E t \in SeqCallers :
        /\ Done(t, "ExecutionDigests")
        /\ th[t].afterAbsent /\ th[t].hadData /\ th[t].ctor = 1
        /\ th[t].begin = 0 /\ th[t].end < 0
        /\ th[t].res.kind = "digests"
        /\ Len(th[t].res.execution_digests) >= 1

\* ---- C12
\* C12: over every interleaving of the caller threads and the update()
\* threads, first calls included: an ExecutionDigests called after another
\* ExecutionDigests returned a record reports a num_digests at least as large
\* and the same digest at every position both report; a SourceFileList
\* called after another returned a key list returns a list that the earlier
\* one is a prefix of.
C12_MonotonicReads ==
    \A t \in AllCallers :
        LET f == th[t]
        IN /\ (Done(t, "ExecutionDigests") /\ f.res.kind = "digests"
                  /\ f.prior.kind = "digests") =>
                /\ f.res.num_digests >= f.prior.num_digests
                /\ \A i \in Max(f.res.begin, f.prior.begin)
                               ..(Min(f.res.end, f.prior.end) - 1) :
                      f.res.execution_digests[i - f.res.begin + 1]
                          = f.prior.execution_digests[i - f.prior.begin + 1]
           /\ (Done(t, "SourceFileList") /\ f.res.kind = "list"
                  /\ f.prior.kind = "list") =>
                /\ Len(f.res.keys) >= Len(f.prior.keys)
                /\ SubSeq(f.res.keys, 1, Len(f.prior.keys)) = f.prior.keys

\* ---- C13
\* C13: ExecutionDigests, SourceFileList and SourceLines return null, and
\* raise nothing, whatever begin, end and index are, when the run is not a key
\* of the mapping their Runs() returned: for every run but the reserved one,
\* and for every run when the construction failed in the call (no data, no
\* reader class, no update()).  On the reserved run of an active store they
\* do not return null.
QueryOps == {"ExecutionDigests", "SourceFileList", "SourceLines"}

C13_UnknownRunIsNull ==
    \A t \in SeqCallers :
        LET f == th[t]
        IN (f.pc = "done" /\ f.op \in QueryOps) =>
             /\ f.run # DEFAULT_DEBUGGER_RUN_NAME => f.res = Null
             /\ reader = None => f.res = Null
             /\ (f.ctor = 1 /\ api = "noUpdate") => f.res = Null
             /\ (f.run = DEFAULT_DEBUGGER_RUN_NAME /\ reader # None
                    /\ ~(f.ctor = 1 /\ api = "noUpdate")) => f.res # Null

\* On an active store, ExecutionDigests of another run with a negative begin
\* returned null.
C13_Witness ==
    \E t \in SeqCallers :
        /\ Done(t, "ExecutionDigests")
        /\ th[t].run = OtherRun /\ th[t].begin < 0
        /\ reader # None /\ launches = 1
        /\ th[t].res = Null

\* ---- C14
\* C14: PluginRunToTagToContent(plugin_name) raises the not-supported error
\* for every plugin name, with self._reader unset (before any Runs() and after
\* a failed one) and set; it constructs no reader, starts no update() and
\* leaves self._reader and the reader's lists as they were.
C14_PluginRunToTagToContent ==
    [][\A t \in SeqCallers :
         (th[t].pc = "idle" /\ th'[t].op = "PluginRunToTagToContent") =>
            /\ th'[t].pc = "done"
            /\ IsNotSupportedError(th'[t].res)
            /\ StoreUnchanged
            /\ passes' = passes /\ launches' = launches]_vars

\* The method was the first call on a logdir that holds data: it raised, and
\* no reader was constructed.
C14_Witness ==
    \E t \in SeqCallers :
        /\ Done(t, "PluginRunToTagToContent")
        /\ th[t].run = "scalars"
        /\ dirData /\ reader = None /\ nReaders = 0 /\ ~absentReturned
        /\ IsNotSupportedError(th[t].res)

\* ---- C15
\* C15: when update() appends to the reader's digest list while an
\* ExecutionDigests call is executing, the record the call returns holds
\* end - begin digests, has end <= num_digests, and for a negative end
\* argument has end = num_digests.
C15_SnapshotConsistency ==
    \A t \in SeqCallers :
        LET f == th[t]
        IN (Done(t, "ExecutionDigests") /\ f.dirty /\ f.res.kind = "digests") =>
             /\ Len(f.res.execution_digests) = f.res.end - f.res.begin
             /\ f.res.end <= f.res.num_digests
             /\ f.end < 0 => f.res.end = f.res.num_digests

\* ---- C16
\* C16: every record ExecutionDigests returns, whatever begin and end are (a
\* negative end with a begin above the number of digests included), has
\* 0 <= begin <= end <= num_digests and holds end - begin digests.
C16_RecordIsWellFormed ==
    \A t \in SeqCallers :
        LET res == th[t].res
        IN (Done(t, "ExecutionDigests") /\ res.kind = "digests") =>
             /\ 0 <= res.begin
             /\ res.begin <= res.end
             /\ res.end <= res.num_digests
             /\ Len(res.execution_digests) = res.end - res.begin

\* ---- C17
\* C17: the store is never active without ingestion having been started.
\* Whenever self._reader is set and no Runs() is between the assignment and
\* run_in_background, update() has been started on the reader; and a Runs()
\* in which the missing-capability error was raised after the reader was
\* created leaves self._reader unset, so that a Runs() that returns the
\* reserved run name is one of a facade whose ingestion was started.
C17_ActiveImpliesLaunched ==
    \A t \in SeqCallers :
        /\ (reader # None /\ th[t].pc # "launch") => launches >= 1
        /\ (Done(t, "Runs") /\ th[t].res = [kind |-> "runs", runs |-> ActiveRuns])
              => launches >= 1
        /\ (Done(t, "Runs") /\ th[t].ctor = 1 /\ api = "noUpdate")
              => (reader = None /\ th[t].res = [kind |-> "runs", runs |-> EmptyRuns])

====
